---- MODULE Spec2Model ----
(***************************************************************************)
(* Model of the BWT -> MTF -> RLE text pipeline of src/src/lib/bwt.ts and  *)
(* of the page src/src/pages/BWT.tsx that runs it.                         *)
(*                                                                         *)
(* A JavaScript string is modelled as a sequence of one-character strings, *)
(* a JavaScript number as an integer (NaN and the ratios, which are        *)
(* floating-point quotients, as tagged records), a thrown TypeError as a   *)
(* tagged result.  Positions are 0-based in the code and 1-based in the    *)
(* sequences; every index that the code stores or returns (primaryIndex,   *)
(* the MTF indices) is kept 0-based, as the code has it.                   *)
(***************************************************************************)
EXTENDS Integers, Sequences, FiniteSets, TLC

\* ------------------------------------------------------------------------
\* Bounds of the model
\* ------------------------------------------------------------------------

\* Every text over TextChars of length 0..MaxLen is an input.
MaxLen == 4

\* decompressText is given step sequences of the lengths 0..MaxSteps.
MaxSteps == 5

\* The length of the long run of one symbol in the text LongRun.
LongRunLen == 12

\* The page model takes no click while this many operations are in flight.
MaxPending == 2

\* ------------------------------------------------------------------------
\* Characters and their orders
\* ------------------------------------------------------------------------

\* The end-of-string marker that burrowsWheelerTransform appends.
Marker == "$"

\* The characters of the input texts: three letters and the marker itself.
TextChars == {"a", "b", "n", Marker}

Digits == <<"0", "1", "2", "3", "4", "5", "6", "7", "8", "9">>

DigitSet == {Digits[i] : i \in 1..Len(Digits)}

\* The characters of the modelled strings in UTF-16 code unit order, the
\* order of Array.prototype.sort() without a comparator:
\* '$' (36) < ',' (44) < '0'..'9' (48..57) < 'a'..'z' (97..122).
\* The letters d, e, f, i, u occur only in the text "undefined" that string
\* concatenation makes of the value undefined, and in TwelveSymbols.
Letters == <<"a", "b", "c", "d", "e", "f", "i", "n", "u">>

CodeUnitOrder == <<"$", ",">> \o Digits \o Letters

\* The same characters in the order of String.prototype.localeCompare
\* (the root collation of ICU, which the JavaScript engines use): punctuation
\* before the currency symbols, these before the digits, these before the
\* letters: ',' < '$' < '0'..'9' < 'a'..'z'.  Every character here has a
\* primary weight of its own, so that equal-length strings compare
\* character by character.
CollationOrder == <<",", "$">> \o Digits \o Letters

Pos(order, c) == CHOOSE i \in 1..Len(order) : order[i] = c

\* a.localeCompare(b): negative, zero or positive
RECURSIVE localeCompare(_, _)
localeCompare(a, b) ==
  IF a = <<>> /\ b = <<>> THEN 0
  ELSE IF a = <<>> THEN -1
  ELSE IF b = <<>> THEN 1
  ELSE LET x == Pos(CollationOrder, Head(a))
           y == Pos(CollationOrder, Head(b))
       IN  IF x < y THEN -1
           ELSE IF x > y THEN 1
           ELSE localeCompare(Tail(a), Tail(b))

\* ------------------------------------------------------------------------
\* JavaScript values
\* ------------------------------------------------------------------------

\* A function's outcome: the string it returns, or the TypeError it throws.
Ok(s) == [kind |-> "ok", val |-> s]

TypeError == [kind |-> "TypeError", val |-> <<>>]

\* a / b in floating point: a quotient, or NaN for 0/0, or Infinity for x/0.
Divide(a, b) ==
  IF b # 0 THEN [kind |-> "number", num |-> a, den |-> b]
  ELSE IF a = 0 THEN [kind |-> "NaN", num |-> a, den |-> b]
  ELSE [kind |-> "Infinity", num |-> a, den |-> b]

\* An absent metadata object (the optional field metadata left out).
NoMetadata == [undefined |-> TRUE]

\* Whether metadata?.key is defined.
Has(metadata, key) == key \in DOMAIN metadata

\* An optional value: undefined, or a defined value.
Undefined == [defined |-> FALSE]

Defined(v) == [defined |-> TRUE, value |-> v]

\* metadata?.key
Get(metadata, key) == IF Has(metadata, key) THEN Defined(metadata[key]) ELSE Undefined

\* ------------------------------------------------------------------------
\* Array.prototype.sort(compare): a stable sort
\* ------------------------------------------------------------------------

\* table.sort((a, b) => a.join('').localeCompare(b.join(''))) (line 93),
\* by insertion: x is put behind every row that does not compare greater.
RECURSIVE InsertRow(_, _)
InsertRow(s, x) ==
  IF s = <<>> THEN <<x>>
  ELSE IF localeCompare(Head(s), x) <= 0 THEN <<Head(s)>> \o InsertRow(Tail(s), x)
  ELSE <<x>> \o s

RECURSIVE SortRows(_)
SortRows(s) ==
  IF s = <<>> THEN <<>>
  ELSE InsertRow(SortRows(SubSeq(s, 1, Len(s) - 1)), s[Len(s)])

\* rotations.sort((a, b) => a.rotation.localeCompare(b.rotation)) (line 42)
RECURSIVE InsertRotation(_, _)
InsertRotation(s, x) ==
  IF s = <<>> THEN <<x>>
  ELSE IF localeCompare(Head(s).rotation, x.rotation) <= 0
       THEN <<Head(s)>> \o InsertRotation(Tail(s), x)
  ELSE <<x>> \o s

RECURSIVE SortRotations(_)
SortRotations(s) ==
  IF s = <<>> THEN <<>>
  ELSE InsertRotation(SortRotations(SubSeq(s, 1, Len(s) - 1)), s[Len(s)])

\* ------------------------------------------------------------------------
\* burrowsWheelerTransform, inverseBurrowsWheelerTransform
\* ------------------------------------------------------------------------

\* textWithMarker.slice(i) + textWithMarker.slice(0, i), i 0-based
Rotation(s, i) == SubSeq(s, i + 1, Len(s)) \o SubSeq(s, 1, i)

\* The rotations of text + '$', sorted (lines 29-42).
SortedRotations(text) ==
  LET textWithMarker == text \o <<Marker>>
      n == Len(textWithMarker)
      rotations == [k \in 1..n |->
                      [rotation |-> Rotation(textWithMarker, k - 1), index |-> k - 1]]
  IN  SortRotations(rotations)

\* The last column of the sorted rotations (lines 45-51).
LastColumn(rotations) ==
  [i \in 1..Len(rotations) |-> rotations[i].rotation[Len(rotations[i].rotation)]]

\* A slip: the position counted from 1.
PrimaryIndexOf_OneBased(rotations) ==
  CHOOSE i \in 1..Len(rotations) : rotations[i].index = 0

\* The position of the rotation of offset 0 (lines 46-55): the last i with
\* rotations[i].index === 0, and 0 when there is none.
PrimaryIndexOf(rotations) ==
  LET hits == {i \in 1..Len(rotations) : rotations[i].index = 0}
  IN  IF hits = {} THEN 0
      ELSE (CHOOSE i \in hits : \A j \in hits : j <= i) - 1

\* s.slice(0, -1)
DropLast(s) == SubSeq(s, 1, Len(s) - 1)

burrowsWheelerTransform(text) ==
  IF text = <<>>
  THEN [transformed |-> <<>>, primaryIndex |-> 0, metadata |-> NoMetadata]
  ELSE LET rotations == SortedRotations(text)
       IN  [transformed |-> DropLast(LastColumn(rotations)),
            primaryIndex |-> PrimaryIndexOf(rotations),
            metadata |-> [originalLength |-> Len(text),
                          rotations |-> Len(rotations)]]

\* One pass of the loop of lines 86-94: the column is put in front of every
\* row, and the rows are sorted.
AddColumn(table, column) ==
  SortRows([row \in 1..Len(table) |-> <<column[row]>> \o table[row]])

RECURSIVE FillTable(_, _, _)
FillTable(table, column, cols) ==
  IF cols = 0 THEN table
  ELSE FillTable(AddColumn(table, column), column, cols - 1)

inverseBurrowsWheelerTransform(transformed, primaryIndex) ==
  IF transformed = <<>> THEN Ok(<<>>)
  ELSE LET textWithMarker == transformed \o <<Marker>>
           n == Len(textWithMarker)
           table == FillTable([row \in 1..n |-> <<>>], textWithMarker, n)
       IN  \* table[primaryIndex] is undefined beyond the table: join throws
           IF primaryIndex < 0 \/ primaryIndex >= n THEN TypeError
           ELSE Ok(DropLast(table[primaryIndex + 1]))

\* ------------------------------------------------------------------------
\* Numbers and their decimal text
\* ------------------------------------------------------------------------

\* String(n) for an integer n >= 0, as join(',') and `${count}` produce it.
RECURSIVE ToDecimal(_)
ToDecimal(n) ==
  IF n < 10 THEN <<Digits[n + 1]>>
  ELSE ToDecimal(n \div 10) \o <<Digits[(n % 10) + 1]>>

IsDigit(c) == c \in DigitSet

DigitValue(c) == Pos(Digits, c) - 1

\* A slip: only the last digit of the count is read.
parseInt_LastDigit(s) == DigitValue(s[Len(s)])

\* parseInt(countStr) for a non-empty string of decimal digits.
RECURSIVE parseInt(_)
parseInt(s) ==
  IF Len(s) = 1 THEN DigitValue(s[1])
  ELSE 10 * parseInt(DropLast(s)) + DigitValue(s[Len(s)])

\* The number NaN as an index: no index that is a number is negative.
NaN == -1

IsNaN(x) == x = NaN

\* Number(token): 0 for the empty string, the value of a string of decimal
\* digits, NaN for a token with another character (the tokens that occur
\* are cut out of strings of digits, commas and the text "undefined";
\* none is in exponent notation).
ToNumber(token) ==
  IF token = <<>> THEN 0
  ELSE IF \A i \in 1..Len(token) : IsDigit(token[i]) THEN parseInt(token)
  ELSE NaN

\* indices.join(',')
RECURSIVE Join(_)
Join(indices) ==
  IF indices = <<>> THEN <<>>
  ELSE IF Len(indices) = 1 THEN ToDecimal(indices[1])
  ELSE ToDecimal(Head(indices)) \o <<",">> \o Join(Tail(indices))

\* indices.split(','): the pieces between the commas, never no piece.
RECURSIVE Split(_)
Split(s) ==
  IF \A i \in 1..Len(s) : s[i] # ","
  THEN <<s>>
  ELSE LET k == CHOOSE i \in 1..Len(s) :
                  s[i] = "," /\ \A j \in 1..(i - 1) : s[j] # ","
       IN  <<SubSeq(s, 1, k - 1)>> \o Split(SubSeq(s, k + 1, Len(s)))

\* char.repeat(count)
Repeat(c, count) == [i \in 1..count |-> c]

RECURSIVE Sum(_)
Sum(s) == IF s = <<>> THEN 0 ELSE Head(s) + Sum(Tail(s))

\* ------------------------------------------------------------------------
\* moveToFrontTransform, inverseMoveToFrontTransform
\* ------------------------------------------------------------------------

\* Array.from(new Set(text)): the distinct characters, in the order of
\* their first occurrence.
RECURSIVE Unique(_)
Unique(text) ==
  IF text = <<>> THEN <<>>
  ELSE LET rest == Unique(DropLast(text))
           c == text[Len(text)]
       IN  IF \E i \in 1..Len(rest) : rest[i] = c THEN rest ELSE rest \o <<c>>

\* .sort() without a comparator: by UTF-16 code units.
RECURSIVE InsertChar(_, _)
InsertChar(s, c) ==
  IF s = <<>> THEN <<c>>
  ELSE IF Pos(CodeUnitOrder, Head(s)) <= Pos(CodeUnitOrder, c)
       THEN <<Head(s)>> \o InsertChar(Tail(s), c)
  ELSE <<c>> \o s

RECURSIVE SortChars(_)
SortChars(s) ==
  IF s = <<>> THEN <<>> ELSE InsertChar(SortChars(DropLast(s)), s[Len(s)])

\* Array.from(new Set(text)).sort() (lines 110 and 126)
SortedAlphabet(text) == SortChars(Unique(text))

\* alphabet.indexOf(char), 0-based; char is in the alphabet
IndexOf(alphabet, c) == (CHOOSE i \in 1..Len(alphabet) : alphabet[i] = c) - 1

\* alphabet.splice(index, 1): the element at index, if there is one, is
\* removed; NaN counts as 0.
Splice(alphabet, index) ==
  LET at == IF IsNaN(index) THEN 0 ELSE index
  IN  IF at >= Len(alphabet) THEN alphabet
      ELSE SubSeq(alphabet, 1, at) \o SubSeq(alphabet, at + 2, Len(alphabet))

\* A slip: the character is put in front and not removed.
MoveToFront_NoRemove(alphabet, index, c) == <<c>> \o alphabet

\* alphabet.splice(index, 1); alphabet.unshift(char) (lines 118-119, 153-154)
MoveToFront(alphabet, index, c) == <<c>> \o Splice(alphabet, index)

\* The loop of lines 113-120 over the rest of the text: the indices pushed.
RECURSIVE MtfIndices(_, _)
MtfIndices(text, alphabet) ==
  IF text = <<>> THEN <<>>
  ELSE LET index == IndexOf(alphabet, Head(text))
       IN  <<index>> \o MtfIndices(Tail(text), MoveToFront(alphabet, index, Head(text)))

\* A slip: the metadata holds the symbols in the order of their first
\* appearance, unsorted.
CapturedAlphabet_Unsorted(text) == Unique(text)

\* metadata.alphabet: computed anew from the text (line 126)
CapturedAlphabet(text) == SortedAlphabet(text)

moveToFrontTransform(text) ==
  IF text = <<>>
  THEN [transformed |-> <<>>, primaryIndex |-> 0, metadata |-> NoMetadata]
  ELSE LET indices == MtfIndices(text, SortedAlphabet(text))
       IN  [transformed |-> Join(indices),
            primaryIndex |-> 0,
            metadata |-> [alphabet |-> CapturedAlphabet(text),
                          averageIndex |-> Divide(Sum(indices), Len(indices))]]

\* The value undefined as an element of the working alphabet, and the text
\* that result += undefined appends.
UndefinedElement == "undefined"

UndefinedText == <<"u", "n", "d", "e", "f", "i", "n", "e", "d">>

\* alphabet[index]
ElementAt(alphabet, index) ==
  IF IsNaN(index) THEN UndefinedElement
  ELSE IF index < Len(alphabet) THEN alphabet[index + 1]
  ELSE UndefinedElement

\* result += char
TextOf(element) == IF element = UndefinedElement THEN UndefinedText ELSE <<element>>

\* The loop of lines 148-155 over the rest of the indices: the text added.
RECURSIVE InverseMtfText(_, _)
InverseMtfText(indexArray, alphabet) ==
  IF indexArray = <<>> THEN <<>>
  ELSE LET index == Head(indexArray)
           c == ElementAt(alphabet, index)
       IN  TextOf(c) \o InverseMtfText(Tail(indexArray), MoveToFront(alphabet, index, c))

\* originalAlphabet is an optional value: [...undefined] throws.
inverseMoveToFrontTransform(indices, originalAlphabet) ==
  IF indices = <<>> THEN Ok(<<>>)
  ELSE IF ~originalAlphabet.defined THEN TypeError
  ELSE LET tokens == Split(indices)
           indexArray == [i \in 1..Len(tokens) |-> ToNumber(tokens[i])]
       IN  Ok(InverseMtfText(indexArray, originalAlphabet.value))

\* ------------------------------------------------------------------------
\* runLengthEncode, runLengthDecode
\* ------------------------------------------------------------------------

\* A slip: the count is written for a run of one symbol too.
EncodeRun_AlwaysCount(count, currentChar) == ToDecimal(count) \o <<currentChar>>

\* count > 1 ? `${count}${currentChar}` : currentChar
EncodeRun(count, currentChar) ==
  IF count > 1 THEN ToDecimal(count) \o <<currentChar>> ELSE <<currentChar>>

\* The loop of lines 172-183 from position i (0-based) on: the text added
\* to encoded, the last run included.
RECURSIVE EncodeFrom(_, _, _, _)
EncodeFrom(text, i, count, currentChar) ==
  IF i >= Len(text) THEN EncodeRun(count, currentChar)
  ELSE IF text[i + 1] = currentChar THEN EncodeFrom(text, i + 1, count + 1, currentChar)
  ELSE EncodeRun(count, currentChar) \o EncodeFrom(text, i + 1, 1, text[i + 1])

runLengthEncode(text) ==
  IF text = <<>>
  THEN [transformed |-> <<>>, primaryIndex |-> 0, metadata |-> NoMetadata]
  ELSE LET encoded == EncodeFrom(text, 1, 1, text[1])
       IN  [transformed |-> encoded,
            primaryIndex |-> 0,
            metadata |-> [originalLength |-> Len(text),
                          encodedLength |-> Len(encoded),
                          compressionRatio |-> Divide(Len(text), Len(encoded))]]

\* The first position from i on (0-based) that holds no digit (line 213).
RECURSIVE SkipDigits(_, _)
SkipDigits(encoded, i) ==
  IF i < Len(encoded) /\ IsDigit(encoded[i + 1]) THEN SkipDigits(encoded, i + 1) ELSE i

\* The loop of lines 209-226 from position i (0-based) on, decoded being
\* the text so far.
RECURSIVE DecodeFrom(_, _, _)
DecodeFrom(encoded, i, decoded) ==
  IF i >= Len(encoded) THEN Ok(decoded)
  ELSE IF i + 1 < Len(encoded) /\ IsDigit(encoded[i + 1])
  THEN LET j == SkipDigits(encoded, i)
           count == parseInt(SubSeq(encoded, i + 1, j))
       IN  \* encoded[j] is undefined at the end: undefined.repeat throws
           IF j >= Len(encoded) THEN TypeError
           ELSE DecodeFrom(encoded, j + 1, decoded \o Repeat(encoded[j + 1], count))
  ELSE DecodeFrom(encoded, i + 1, decoded \o <<encoded[i + 1]>>)

runLengthDecode(encoded) ==
  IF encoded = <<>> THEN Ok(<<>>) ELSE DecodeFrom(encoded, 0, <<>>)

\* ------------------------------------------------------------------------
\* compressText, decompressText
\* ------------------------------------------------------------------------

\* { primaryIndex: bwtResult.primaryIndex, ...bwtResult.metadata } (line 254)
BwtStepMetadata(bwtResult) ==
  IF Has(bwtResult.metadata, "originalLength")
  THEN [primaryIndex |-> bwtResult.primaryIndex,
        originalLength |-> bwtResult.metadata.originalLength,
        rotations |-> bwtResult.metadata.rotations]
  ELSE [primaryIndex |-> bwtResult.primaryIndex]

\* steps.push of lines 240-245
OriginalStep(text) ==
  [name |-> "Original",
   input |-> text,
   output |-> text,
   ratio |-> Divide(1, 1),
   metadata |-> NoMetadata]

\* steps.push of lines 249-255
BwtStep(text, bwtResult) ==
  [name |-> "BWT",
   input |-> text,
   output |-> bwtResult.transformed,
   ratio |-> Divide(Len(text), Len(bwtResult.transformed)),
   metadata |-> BwtStepMetadata(bwtResult)]

\* A slip: the MTF step records its own output as its input.
MtfStep_OwnOutput(bwtResult, mtfResult) ==
  [name |-> "MTF",
   input |-> mtfResult.transformed,
   output |-> mtfResult.transformed,
   ratio |-> Divide(Len(bwtResult.transformed), Len(mtfResult.transformed)),
   metadata |-> mtfResult.metadata]

\* steps.push of lines 259-265
MtfStep(bwtResult, mtfResult) ==
  [name |-> "MTF",
   input |-> bwtResult.transformed,
   output |-> mtfResult.transformed,
   ratio |-> Divide(Len(bwtResult.transformed), Len(mtfResult.transformed)),
   metadata |-> mtfResult.metadata]

\* steps.push of lines 269-275
RleStep(mtfResult, rleResult) ==
  [name |-> "RLE",
   input |-> mtfResult.transformed,
   output |-> rleResult.transformed,
   ratio |-> Divide(Len(mtfResult.transformed), Len(rleResult.transformed)),
   metadata |-> rleResult.metadata]

compressText(text) ==
  LET bwtResult == burrowsWheelerTransform(text)
      mtfResult == moveToFrontTransform(bwtResult.transformed)
      rleResult == runLengthEncode(mtfResult.transformed)
  IN  << OriginalStep(text),
         BwtStep(text, bwtResult),
         MtfStep(bwtResult, mtfResult),
         RleStep(mtfResult, rleResult) >>

\* Lines 294-298: the inverse MTF, skipped when the alphabet is absent.
InverseMtfStep(current, mtfMetadata) ==
  IF Has(mtfMetadata, "alphabet")
  THEN inverseMoveToFrontTransform(current, Get(mtfMetadata, "alphabet"))
  ELSE Ok(current)

\* Lines 300-304: the inverse BWT, skipped when the primary index is absent.
InverseBwtStep(current, bwtMetadata) ==
  IF Has(bwtMetadata, "primaryIndex")
  THEN inverseBurrowsWheelerTransform(current, bwtMetadata.primaryIndex)
  ELSE Ok(current)

\* steps[k] of the code is steps[k + 1] here.
decompressText(steps) ==
  IF Len(steps) < 4 THEN Ok(<<>>)
  ELSE LET decoded == runLengthDecode(steps[4].output)
       IN  IF decoded.kind # "ok" THEN decoded
           ELSE LET unmoved == InverseMtfStep(decoded.val, steps[3].metadata)
                IN  IF unmoved.kind # "ok" THEN unmoved
                    ELSE InverseBwtStep(unmoved.val, steps[2].metadata)

\* ------------------------------------------------------------------------
\* The calls of the exported functions
\* ------------------------------------------------------------------------

\* The initial inputText of the page, and its first sample text.
Banana == <<"b", "a", "n", "a", "n", "a">>

\* A text of twelve distinct symbols: its MTF indices have two digits.
TwelveSymbols == <<"u", "n", "i", "f", "e", "d", "b", "a", "9", "8", "7", "6">>

\* Distinct symbols in sorted order.
Abc == <<"a", "b", "c">>

\* A run of LongRunLen symbols, whose length has two digits.
LongRun == [i \in 1..LongRunLen |-> "a"] \o <<"b">>

\* The characters of the strings with digits: read as encoded strings, they
\* hold counts, and digit sequences that reach their end.
DigitChars == {"a", "b", "1", "2"}

Texts ==
  UNION {[1..n -> TextChars] : n \in 0..MaxLen}
    \cup UNION {[1..n -> DigitChars] : n \in 0..MaxLen}
    \cup {Banana, TwelveSymbols, Abc, LongRun}

\* A TransformResult before any transform has run.
NoResult == [transformed |-> <<>>, primaryIndex |-> 0, metadata |-> NoMetadata]

\* An outcome before any function has returned.
NoOutcome == [kind |-> "none", val |-> <<>>]

\* metadata without one key
Without(metadata, key) == [k \in DOMAIN metadata \ {key} |-> metadata[k]]

\* A step sequence as a caller can pass it to decompressText: k steps of
\* the record (the last one repeated beyond its end), with the alphabet of
\* steps[2] or the primary index of steps[1] left out or not.
Resize(record, k) ==
  [i \in 1..k |-> IF i <= Len(record) THEN record[i] ELSE record[Len(record)]]

Malformed(record, k, dropAlphabet, dropPrimaryIndex) ==
  [i \in 1..k |->
     LET step == Resize(record, k)[i]
     IN  IF i = 3 /\ dropAlphabet
         THEN [step EXCEPT !.metadata = Without(step.metadata, "alphabet")]
         ELSE IF i = 2 /\ dropPrimaryIndex
         THEN [step EXCEPT !.metadata = Without(step.metadata, "primaryIndex")]
         ELSE step]

VARIABLES
  text,    \* the text the functions are tried on
  input,   \* the argument of the latest forward transform
  fwd,     \* the TransformResult of the latest forward transform
  steps,   \* the CompressionStep[] that compressText returned
  given,   \* the CompressionStep[] passed to decompressText
  ret,     \* the outcome of the latest inverse transform or decompressText
  pc       \* the latest call: "start" before any

\* The state of the component BWT (src/src/pages/BWT.tsx, lines 14-19)
VARIABLES
  inputText,         \* useState('banana')
  compressionSteps,  \* useState<CompressionStep[]>([])
  decompressedText,  \* useState('')
  isProcessing,      \* useState(false)
  pending,           \* the handlers waiting at their await, oldest first
  toast              \* the title of the latest toast, "none" before any

callVars == <<text, input, fwd, steps, given, ret, pc>>

pageVars == <<inputText, compressionSteps, decompressedText, isProcessing, pending, toast>>

vars == <<callVars, pageVars>>

\* The component as it is mounted.
PageInit ==
  /\ inputText = Banana
  /\ compressionSteps = <<>>
  /\ decompressedText = <<>>
  /\ isProcessing = FALSE
  /\ pending = <<>>
  /\ toast = "none"

Init ==
  /\ text \in Texts
  /\ input = text
  /\ fwd = NoResult
  /\ steps = <<>>
  /\ given = <<>>
  /\ ret = NoOutcome
  /\ pc = "start"
  /\ PageInit

CallBWT ==
  /\ pc = "start"
  /\ fwd' = burrowsWheelerTransform(input)
  /\ pc' = "bwt"
  /\ UNCHANGED <<text, input, steps, given, ret>>
  /\ UNCHANGED pageVars

CallInverseBWT ==
  /\ pc = "bwt"
  /\ ret' = inverseBurrowsWheelerTransform(fwd.transformed, fwd.primaryIndex)
  /\ pc' = "ibwt"
  /\ UNCHANGED <<text, input, fwd, steps, given>>
  /\ UNCHANGED pageVars

CallMTF ==
  /\ pc = "start"
  /\ fwd' = moveToFrontTransform(input)
  /\ pc' = "mtf"
  /\ UNCHANGED <<text, input, steps, given, ret>>
  /\ UNCHANGED pageVars

CallInverseMTF ==
  /\ pc = "mtf"
  /\ ret' = inverseMoveToFrontTransform(fwd.transformed, Get(fwd.metadata, "alphabet"))
  /\ pc' = "imtf"
  /\ UNCHANGED <<text, input, fwd, steps, given>>
  /\ UNCHANGED pageVars

\* runLengthEncode of the text, or of the string that moveToFrontTransform
\* has just produced.
CallRLE ==
  /\ pc \in {"start", "mtf"}
  /\ input' = IF pc = "mtf" THEN fwd.transformed ELSE input
  /\ fwd' = runLengthEncode(input')
  /\ pc' = IF pc = "mtf" THEN "mtf-rle" ELSE "rle"
  /\ UNCHANGED <<text, steps, given, ret>>
  /\ UNCHANGED pageVars

CallRLD ==
  /\ pc \in {"rle", "mtf-rle"}
  /\ ret' = runLengthDecode(fwd.transformed)
  /\ pc' = IF pc = "mtf-rle" THEN "mtf-rld" ELSE "rld"
  /\ UNCHANGED <<text, input, fwd, steps, given>>
  /\ UNCHANGED pageVars

\* runLengthDecode of the text itself, as an encoded string.
CallDecode ==
  /\ pc = "start"
  /\ ret' = runLengthDecode(input)
  /\ pc' = "decode"
  /\ UNCHANGED <<text, input, fwd, steps, given>>
  /\ UNCHANGED pageVars

CallCompress ==
  /\ pc = "start"
  /\ steps' = compressText(text)
  /\ pc' = "compress"
  /\ UNCHANGED <<text, input, fwd, given, ret>>
  /\ UNCHANGED pageVars

CallDecompress ==
  /\ pc = "compress"
  /\ \E k \in 0..MaxSteps, dropAlphabet \in BOOLEAN, dropPrimaryIndex \in BOOLEAN :
       /\ given' = Malformed(steps, k, dropAlphabet, dropPrimaryIndex)
       /\ ret' = decompressText(given')
  /\ pc' = "decompress"
  /\ UNCHANGED <<text, input, fwd, steps>>
  /\ UNCHANGED pageVars

Next ==
  \/ CallBWT
  \/ CallInverseBWT
  \/ CallMTF
  \/ CallInverseMTF
  \/ CallRLE
  \/ CallRLD
  \/ CallDecode
  \/ CallCompress
  \/ CallDecompress

Spec == Init /\ [][Next]_vars

\* ------------------------------------------------------------------------
\* The page: src/src/pages/BWT.tsx
\* ------------------------------------------------------------------------

\* What the user types into the textarea: nothing, a blank, and texts of
\* which decompressText returns the text ("a"), another text ("ab") or
\* throws ("aa").
TypedTexts == {<<>>, <<" ">>, <<"a">>, <<"a", "a">>, <<"a", "b">>}

\* sampleTexts (lines 22-27): the sample 'banana'; the other samples hold
\* characters outside the modelled ones.
SampleTexts == {Banana}

RECURSIVE TrimStart(_)
TrimStart(s) == IF s # <<>> /\ Head(s) = " " THEN TrimStart(Tail(s)) ELSE s

RECURSIVE TrimEnd(_)
TrimEnd(s) == IF s # <<>> /\ s[Len(s)] = " " THEN TrimEnd(DropLast(s)) ELSE s

\* inputText.trim()
Trim(s) == TrimEnd(TrimStart(s))

\* A slip: the button stays enabled while an operation runs.
CompressDisabled_WhileIdleOnly == Trim(inputText) = <<>>

\* disabled={isProcessing || !inputText.trim()} (line 175)
CompressDisabled == isProcessing \/ Trim(inputText) = <<>>

\* disabled={isProcessing || compressionSteps.length === 0} (line 188)
DecompressDisabled == isProcessing \/ Len(compressionSteps) = 0

\* A handler at its await: the operation and the state its closure holds.
Job(op) == [op |-> op, inputText |-> inputText, compressionSteps |-> compressionSteps]

\* onChange of the textarea (line 167)
EditText ==
  /\ \E t \in TypedTexts : inputText' = t
  /\ UNCHANGED <<compressionSteps, decompressedText, isProcessing, pending, toast>>
  /\ UNCHANGED callVars

\* handleSampleText (lines 100-104)
ClickSample ==
  /\ \E t \in SampleTexts : inputText' = t
  /\ compressionSteps' = <<>>
  /\ decompressedText' = <<>>
  /\ UNCHANGED <<isProcessing, pending, toast>>
  /\ UNCHANGED callVars

\* handleReset (lines 106-110)
ClickReset ==
  /\ inputText' = <<>>
  /\ compressionSteps' = <<>>
  /\ decompressedText' = <<>>
  /\ UNCHANGED <<isProcessing, pending, toast>>
  /\ UNCHANGED callVars

\* A click on Compress: handleCompress up to its await (lines 29-43).  The
\* click reaches the handler only while the button is enabled; the state set
\* by a click is rendered before the next event is dispatched.
ClickCompress ==
  /\ ~CompressDisabled
  /\ Len(pending) < MaxPending
  /\ IF Trim(inputText) = <<>>
     THEN /\ toast' = "Input Required"
          /\ UNCHANGED <<isProcessing, pending>>
     ELSE /\ isProcessing' = TRUE
          /\ pending' = Append(pending, Job("compress"))
          /\ UNCHANGED toast
  /\ UNCHANGED <<inputText, compressionSteps, decompressedText>>
  /\ UNCHANGED callVars

\* A click on Decompress: handleDecompress up to its await (lines 63-76).
ClickDecompress ==
  /\ ~DecompressDisabled
  /\ Len(pending) < MaxPending
  /\ IF Len(compressionSteps) = 0
     THEN /\ toast' = "No Compressed Data"
          /\ UNCHANGED <<isProcessing, pending>>
     ELSE /\ isProcessing' = TRUE
          /\ pending' = Append(pending, Job("decompress"))
          /\ UNCHANGED toast
  /\ UNCHANGED <<inputText, compressionSteps, decompressedText>>
  /\ UNCHANGED callVars

\* The timer of the oldest waiting handleCompress fires: lines 45-60.
\* compressText does not throw; finally sets isProcessing to false.
CompressCompletes ==
  /\ pending # <<>>
  /\ Head(pending).op = "compress"
  /\ compressionSteps' = compressText(Head(pending).inputText)
  /\ toast' = "Compression Complete"
  /\ isProcessing' = FALSE
  /\ pending' = Tail(pending)
  /\ UNCHANGED <<inputText, decompressedText>>
  /\ UNCHANGED callVars

\* The timer of the oldest waiting handleDecompress fires: lines 78-97.
\* When decompressText throws, the catch block shows the error toast; in
\* either case finally sets isProcessing to false.
DecompressCompletes ==
  /\ pending # <<>>
  /\ Head(pending).op = "decompress"
  /\ LET decompressed == decompressText(Head(pending).compressionSteps)
     IN  IF decompressed.kind = "ok"
         THEN /\ decompressedText' = decompressed.val
              /\ toast' = IF decompressed.val = Head(pending).inputText
                          THEN "Decompression Successful"
                          ELSE "Decompression Warning"
         ELSE /\ toast' = "Decompression Error"
              /\ UNCHANGED decompressedText
  /\ isProcessing' = FALSE
  /\ pending' = Tail(pending)
  /\ UNCHANGED <<inputText, compressionSteps>>
  /\ UNCHANGED callVars

TimerFires == CompressCompletes \/ DecompressCompletes

PageNext ==
  \/ EditText
  \/ ClickSample
  \/ ClickReset
  \/ ClickCompress
  \/ ClickDecompress
  \/ CompressCompletes
  \/ DecompressCompletes

\* The component as it is mounted; no exported function is called but by
\* the page.
InitPage ==
  /\ PageInit
  /\ text = <<>>
  /\ input = <<>>
  /\ fwd = NoResult
  /\ steps = <<>>
  /\ given = <<>>
  /\ ret = NoOutcome
  /\ pc = "start"

\* The oldest waiting handler resumes.  TimerFires is enabled exactly when
\* a handler waits, and its steps are the steps of PageNext that take the
\* oldest handler off pending (TimerStepIsTimerFires).
TimerStep == pending # <<>> /\ pending' = Tail(pending)

\* The page with its users and timers.  A timer that was set fires after
\* its delay (setTimeout, lines 45 and 78), so a waiting handler resumes;
\* nothing obliges the user to click.
SpecPage == InitPage /\ [][PageNext]_vars /\ WF_pending(TimerStep)

\* The steps of the fairness condition are those of the timers.
TimerStepIsTimerFires == [][TimerStep <=> TimerFires]_vars

\* ------------------------------------------------------------------------
\* Properties
\* ------------------------------------------------------------------------

NoMarker(s) == \A i \in 1..Len(s) : s[i] # Marker

\* s without its element at the 0-based position k
RemoveAt(s, k) == SubSeq(s, 1, k) \o SubSeq(s, k + 2, Len(s))

Count(s, c) == Cardinality({i \in 1..Len(s) : s[i] = c})

IsPermutation(s, u) ==
  /\ Len(s) = Len(u)
  /\ \A i \in 1..Len(u) : Count(s, u[i]) = Count(u, u[i])

\* C1: for every text T without the marker '$', the empty text included,
\* decompressText(compressText(T)) returns exactly T.
C1_RoundTrip ==
  (pc = "decompress" /\ given = steps /\ NoMarker(text)) => ret = Ok(text)

\* C2: for every text T without the marker, the inverse BWT of the forward
\* BWT's string and primary index returns T.
C2_BwtRoundTrip ==
  (pc = "ibwt" /\ NoMarker(text)) => ret = Ok(text)

\* C3: for every non-empty text T without the marker, the string that
\* burrowsWheelerTransform returns is the last column of the sorted rotations
\* of T + '$' with the marker removed at primaryIndex: it has the length of
\* T, holds no marker and is a permutation of T; for "banana" it is
\* "annbaa" with primaryIndex 4.
C3_MarkerRemovedAtPrimaryIndex ==
  (pc = "bwt" /\ text # <<>> /\ NoMarker(text)) =>
     /\ fwd.transformed =
          RemoveAt(LastColumn(SortedRotations(text)), fwd.primaryIndex)
     /\ Len(fwd.transformed) = Len(text)
     /\ NoMarker(fwd.transformed)
     /\ IsPermutation(fwd.transformed, text)
     /\ (text = Banana =>
           /\ fwd.transformed = <<"a", "n", "n", "b", "a", "a">>
           /\ fwd.primaryIndex = 4)

\* C4: for every string S, inverseMoveToFrontTransform of the forward
\* transform's index string and of the alphabet in the forward transform's
\* metadata returns S.  (For the empty S the forward transform returns no
\* metadata; the alphabet passed is then undefined, and the inverse returns
\* the empty string without reading it.)
C4_MtfRoundTrip ==
  pc = "imtf" => ret = Ok(text)

\* C4: a text with a repeated symbol and a symbol moved in the alphabet has
\* gone through both transforms.
C4_Witness ==
  /\ pc = "imtf"
  /\ text = <<"n", "b", "a", "a">>
  /\ fwd.transformed = <<"2", ",", "2", ",", "2", ",", "0">>
  /\ ret = Ok(text)

\* C4: a text whose indices have two digits has gone through both
\* transforms.
C4_WitnessTwoDigits ==
  /\ pc = "imtf"
  /\ text = TwelveSymbols
  /\ SubSeq(fwd.transformed, 1, 5) = <<"1", "1", ",", "1", "1">>
  /\ ret = Ok(text)

\* C5: for every string S that moveToFrontTransform produces (decimal
\* indices separated by commas), runLengthDecode(runLengthEncode(S)) is S.
C5_RleRoundTripOnMtfOutput ==
  pc = "mtf-rld" => ret = Ok(input)

\* C6: for every text T, compressText(T) returns exactly the 4 steps
\* Original, BWT, MTF, RLE in this order; the first step has T as its input
\* and output, and every later step has the output of the step before it as
\* its input.
C6_StepChain ==
  pc = "compress" =>
     /\ Len(steps) = 4
     /\ [i \in 1..4 |-> steps[i].name] = <<"Original", "BWT", "MTF", "RLE">>
     /\ steps[1].input = text
     /\ steps[1].output = text
     /\ \A i \in 2..4 : steps[i].input = steps[i - 1].output

\* C6: compressText has returned for a text whose three transforms all
\* change their input.
C6_Witness ==
  /\ pc = "compress"
  /\ text = Banana
  /\ Len(steps) = 4
  /\ \A i \in 2..3 : steps[i].output # steps[i].input

\* C7: decompressText reports an error, and returns no string, whenever it
\* is given fewer or more than 4 steps.
C7_LengthError ==
  (pc = "decompress" /\ Len(given) # 4) => ret.kind # "ok"

\* C8: given 4 steps of which steps[2] has no alphabet or steps[1] has no
\* primary index, decompressText reports a failure: it returns no string.
C8_MissingMetadataError ==
  ( /\ pc = "decompress"
    /\ Len(given) = 4
    /\ ~Has(given[3].metadata, "alphabet") \/ ~Has(given[2].metadata, "primaryIndex") )
  => ret.kind # "ok"

\* C9: for every text T that holds the marker '$', compressText(T) reports
\* a failure and returns no step sequence.
C9_MarkerRejected ==
  (pc = "compress" /\ ~NoMarker(text)) => steps = <<>>

\* C10: compressText("") returns 4 steps with empty outputs whose ratios
\* are all defined: none is the quotient 0/0.
C10_EmptyTextRatios ==
  (pc = "compress" /\ text = <<>>) =>
     /\ Len(steps) = 4
     /\ \A i \in 1..4 : steps[i].output = <<>> /\ steps[i].ratio.kind = "number"

\* C11: for every non-empty text T, the alphabet in the metadata of the MTF
\* step of compressText(T) is the list, free of duplicates and sorted by
\* code points, of the symbols of the BWT step's output: the working
\* alphabet before any symbol was moved.
C11_AlphabetOfBwtOutput ==
  (pc = "compress" /\ text # <<>>) =>
     /\ Has(steps[3].metadata, "alphabet")
     /\ LET alphabet == steps[3].metadata.alphabet
            output == steps[2].output
        IN  /\ {alphabet[i] : i \in 1..Len(alphabet)}
                 = {output[i] : i \in 1..Len(output)}
            /\ \A i, j \in 1..Len(alphabet) :
                 i < j => Pos(CodeUnitOrder, alphabet[i]) < Pos(CodeUnitOrder, alphabet[j])

\* C11: compressText has returned for a text in whose BWT output the
\* symbols occur neither sorted nor once.
C11_Witness ==
  /\ pc = "compress"
  /\ text = Banana
  /\ steps[2].output = <<"a", "n", "n", "b", "$", "a">>
  /\ steps[3].metadata.alphabet = <<"$", "a", "b", "n">>

\* The last position of the maximal run of s that begins at position i.
RunEnd(s, i) ==
  CHOOSE j \in i..Len(s) :
    /\ \A k \in i..j : s[k] = s[i]
    /\ j = Len(s) \/ s[j + 1] # s[i]

\* The maximal runs of s from position i on, each written as its symbol
\* alone (length 1) or as its decimal length and its symbol (length >= 2).
RECURSIVE RunsWritten(_, _)
RunsWritten(s, i) ==
  IF i > Len(s) THEN <<>>
  ELSE LET j == RunEnd(s, i)
           length == j - i + 1
       IN  (IF length = 1 THEN <<s[i]>> ELSE ToDecimal(length) \o <<s[i]>>)
             \o RunsWritten(s, j + 1)

Aaab == <<"a", "a", "a", "b">>

\* C12: for every non-empty string S, runLengthEncode(S).transformed is the
\* concatenation, over the maximal runs of S from left to right, of the
\* symbol alone for a run of length 1 and of the decimal run length and the
\* symbol for a longer run; the encoding of "aaab" is "3ab", and
\* runLengthDecode("3ab") is "aaab".
C12_RunsWritten ==
  /\ (pc \in {"rle", "mtf-rle"} /\ input # <<>>) =>
        /\ fwd.transformed = RunsWritten(input, 1)
        /\ input = Aaab => fwd.transformed = <<"3", "a", "b">>
  /\ (pc = "rld" /\ input = Aaab) => ret = Ok(Aaab)

\* C12: a text with a run of two digits' length, a run of one symbol and
\* digits of its own has been encoded.
C12_Witness ==
  /\ pc = "rle"
  /\ input = <<"1", "1", "a", "2">>
  /\ fwd.transformed = <<"2", "1", "a", "2">>

\* C13: for every non-empty text T without the marker, with S = T + '$' and
\* n = |S|, the primaryIndex that burrowsWheelerTransform(T) returns is the
\* position of S itself among the n sorted rotations (the number of
\* rotations that sort before S), lies in 0..n-1, and is the one position
\* of the marker in the last column; for "aa" it is 2.
C13_PrimaryIndex ==
  (pc = "bwt" /\ text # <<>> /\ NoMarker(text)) =>
     LET S == text \o <<Marker>>
         n == Len(S)
         column == LastColumn(SortedRotations(text))
     IN  /\ fwd.primaryIndex \in 0..(n - 1)
         /\ fwd.primaryIndex =
              Cardinality({k \in 1..(n - 1) : localeCompare(Rotation(S, k), S) < 0})
         /\ \A i \in 1..n : column[i] = Marker <=> i = fwd.primaryIndex + 1
         /\ text = <<"a", "a">> => fwd.primaryIndex = 2

\* C13: burrowsWheelerTransform has returned a primary index that is
\* neither the first nor the last position.
C13_Witness ==
  /\ pc = "bwt"
  /\ text = Banana
  /\ fwd.primaryIndex = 4

\* The symbols of s before position k.
SymbolsBefore(s, k) == {s[j] : j \in 1..(k - 1)}

\* The position of s[k] in the move-to-front list when s[1..k-1] have been
\* moved: a symbol met before stands behind the distinct symbols met since
\* its last occurrence; a new symbol stands behind all symbols met so far
\* and the smaller new symbols.
ListPosition(s, k) ==
  LET earlier == {j \in 1..(k - 1) : s[j] = s[k]}
  IN  IF earlier # {}
      THEN LET last == CHOOSE j \in earlier : \A m \in earlier : m <= j
           IN  Cardinality({s[j] : j \in (last + 1)..(k - 1)})
      ELSE Cardinality(SymbolsBefore(s, k))
             + Cardinality({c \in SymbolsBefore(s, Len(s) + 1) \ SymbolsBefore(s, k) :
                              Pos(CodeUnitOrder, c) < Pos(CodeUnitOrder, s[k])})

\* C14: for every non-empty string S, the k-th index that
\* moveToFrontTransform(S) emits is the position of the k-th symbol in the
\* list made of the sorted alphabet of S by moving the symbols before it to
\* the front one by one; every index lies in 0..|alphabet|-1, and distinct
\* symbols in sorted order, such as "abc", yield 0,1,2.
C14_EmittedIndices ==
  (pc = "mtf" /\ text # <<>>) =>
     LET tokens == Split(fwd.transformed)
         size == Cardinality(SymbolsBefore(text, Len(text) + 1))
     IN  /\ Len(tokens) = Len(text)
         /\ \A k \in 1..Len(text) :
              /\ tokens[k] = ToDecimal(ListPosition(text, k))
              /\ ToNumber(tokens[k]) \in 0..(size - 1)
         /\ text = Abc => fwd.transformed = <<"0", ",", "1", ",", "2">>

\* C14: moveToFrontTransform has run on a text with a symbol met again
\* after two others.
C14_Witness ==
  /\ pc = "mtf"
  /\ text = <<"a", "b", "n", "a">>
  /\ fwd.transformed = <<"0", ",", "1", ",", "2", ",", "2">>

\* The first position from i on that holds no digit (1-based; Len(s) + 1
\* when the digits reach the end).
RECURSIVE DigitsEnd(_, _)
DigitsEnd(s, i) ==
  IF i <= Len(s) /\ s[i] \in DigitSet THEN DigitsEnd(s, i + 1) ELSE i

\* The decoding as the specification words it, from position i on: a
\* maximal digit sequence followed by a character is a count of that
\* character; any other character is emitted as it is.
RECURSIVE DecodedAsSpecified(_, _)
DecodedAsSpecified(s, i) ==
  IF i > Len(s) THEN <<>>
  ELSE LET j == DigitsEnd(s, i)
       IN  IF j > i /\ j <= Len(s)
           THEN [k \in 1..parseInt(SubSeq(s, i, j - 1)) |-> s[j]]
                  \o DecodedAsSpecified(s, j + 1)
           ELSE <<s[i]>> \o DecodedAsSpecified(s, i + 1)

\* C15: runLengthDecode returns a string for every input string and never
\* fails: a maximal digit sequence is a count only when a character follows
\* it, and a digit sequence that reaches the end of the string is emitted
\* as it is, one character at a time.
C15_DecodeNeverFails ==
  pc = "decode" =>
     /\ ret.kind = "ok"
     /\ ret.val = DecodedAsSpecified(input, 1)

NoDigit(s) == \A i \in 1..Len(s) : s[i] \notin DigitSet

\* C16: for every string S without a decimal digit,
\* runLengthDecode(runLengthEncode(S).transformed) is S, whatever the
\* lengths of its runs, those of 10 and more included.
C16_RleRoundTripWithoutDigits ==
  (pc = "rld" /\ NoDigit(input)) => ret = Ok(input)

\* C16: a text without digits and with a run whose length has two digits
\* has been encoded and decoded.
C16_Witness ==
  /\ pc = "rld"
  /\ input = LongRun
  /\ Len(fwd.transformed) = 4
  /\ SubSeq(fwd.transformed, 3, 4) = <<"a", "b">>
  /\ ret = Ok(LongRun)

\* C17: on the page, whatever the order of clicks and timers, at most one
\* compress or decompress operation is in flight at a time (both buttons
\* are disabled while isProcessing is true, which it is exactly while an
\* operation is in flight), and every operation that was started sets
\* isProcessing back to false, also when the transform throws.
C17_OneOperationInFlight ==
  /\ [](/\ Len(pending) <= 1
        /\ isProcessing <=> pending # <<>>
        /\ isProcessing => CompressDisabled /\ DecompressDisabled)
  /\ (isProcessing ~> ~isProcessing)

\* C17: an operation was started, its transform threw, and isProcessing is
\* false again.
C17_Witness ==
  /\ toast = "Decompression Error"
  /\ ~isProcessing
  /\ pending = <<>>
  /\ Len(compressionSteps) = 4

====
